---- MODULE Spec2Model ----
(***************************************************************************)
(* A model of the plan validation pipeline (agent/schemas.py, PlanV1) and  *)
(* of the metric registry it resolves against (tools/metrics.py).          *)
(*                                                                         *)
(* A structured input is a record whose DOMAIN is the set of keys the      *)
(* caller passed: an omitted key is absent from the DOMAIN.  A Plan is a   *)
(* record with every field of PlanV1.  Text is a TLA+ string; an Optional  *)
(* value is a sequence of length 0 (None) or 1.                            *)
(***************************************************************************)
EXTENDS Integers, Sequences, FiniteSets, TLC

VARIABLES
    now,        \* the calendar year the system clock currently returns
    input,      \* the structured input of the last construction, NoInput before
    plan,       \* the live Plan object the caller holds, NoPlan when none
    built,      \* history: the Plan exactly as the constructor returned it
    outcome,    \* result of the last construction: the Plan returned or the error raised
    readYear,   \* the year the last construction read from the clock, 0 if none
    prev,       \* history: before a re-validation at year `at`, the clock year read
                \* (year), the result (ok) and the Plan held; pristine: as constructed
    resolved,   \* what the last metric_spec() / registry lookup returned or raised
    maybe,      \* what the last maybe_get() returned
    op,         \* name of the last operation performed
    writes      \* number of caller writes to the live Plan so far

vars == <<now, input, plan, built, outcome, readYear, prev, resolved, maybe, op, writes>>

----------------------------------------------------------------------------
(* Bounds of the model. *)

ClockStart == 2025      \* the first clock year of a behaviour
MaxTicks == 2           \* new-year ticks in a behaviour
MaxWrites == 1          \* caller writes to one Plan
MaxRawCountries == 5    \* longest raw countries list submitted
MaxRawViews == 3        \* longest raw views list submitted

(* Program constants. *)

YearLo == 1800
YearHi == 2500
CountriesMin == 1
CountriesMax == 3
UniqMax == 3
QuestionMin == 5
QuestionMax == 500
MetricIdMin == 3
MetricIdMax == 80
NotesMax == 500
ViewsMax == 2

DATASET_OWID_ENERGY == "owid_energy"

----------------------------------------------------------------------------
(* tools/metrics.py *)

MetricSpec(id, col, u, d, cat) ==
    [metric_id |-> id, column |-> col, unit |-> u, description |-> d, category |-> cat]

OwidMetrics ==
       ("energy_per_capita" :> MetricSpec("energy_per_capita", "energy_per_capita",
            "kWh per person per year", "Primary energy consumption per person.", "consumption"))
    @@ ("primary_energy_consumption" :> MetricSpec("primary_energy_consumption",
            "primary_energy_consumption", "TWh per year",
            "Total primary energy consumption.", "consumption"))
    @@ ("renewables_share_energy" :> MetricSpec("renewables_share_energy",
            "renewables_share_energy", "percent of primary energy",
            "Share of primary energy from renewables.", "energy_mix"))
    @@ ("fossil_share_energy" :> MetricSpec("fossil_share_energy", "fossil_share_energy",
            "percent of primary energy", "Share of primary energy from fossil fuels.",
            "energy_mix"))
    @@ ("coal_share_energy" :> MetricSpec("coal_share_energy", "coal_share_energy",
            "percent of primary energy", "Share of primary energy from coal.", "energy_mix"))
    @@ ("oil_share_energy" :> MetricSpec("oil_share_energy", "oil_share_energy",
            "percent of primary energy", "Share of primary energy from oil.", "energy_mix"))
    @@ ("gas_share_energy" :> MetricSpec("gas_share_energy", "gas_share_energy",
            "percent of primary energy", "Share of primary energy from gas.", "energy_mix"))
    @@ ("nuclear_share_energy" :> MetricSpec("nuclear_share_energy", "nuclear_share_energy",
            "percent of primary energy", "Share of primary energy from nuclear.",
            "energy_mix"))
    @@ ("solar_share_elec" :> MetricSpec("solar_share_elec", "solar_share_elec",
            "percent of electricity generation",
            "Share of electricity generation from solar.", "electricity_mix"))
    @@ ("wind_share_elec" :> MetricSpec("wind_share_elec", "wind_share_elec",
            "percent of electricity generation",
            "Share of electricity generation from wind.", "electricity_mix"))
    @@ ("hydro_share_elec" :> MetricSpec("hydro_share_elec", "hydro_share_elec",
            "percent of electricity generation",
            "Share of electricity generation from hydro.", "electricity_mix"))

\* MetricRegistry._datasets: dataset_id -> metric_id -> MetricSpec
Datasets == (DATASET_OWID_ENERGY :> OwidMetrics)

\* A call either returns a value or raises: [ok, value] or [ok, raised, unknown].
Return(v) == [ok |-> TRUE, value |-> v]
RaiseKeyError(what) == [ok |-> FALSE, raised |-> "KeyError", unknown |-> what]

\* MetricRegistry._assert_dataset: TRUE when it returns, FALSE when it raises
AssertDatasetPasses(dataset_id) == dataset_id \in DOMAIN Datasets

\* A plausible slip in get: the metric is looked up before the dataset is checked
Get_MetricFirst(dataset_id, metric_id) ==
    IF \A d \in DOMAIN Datasets : metric_id \notin DOMAIN Datasets[d]
    THEN RaiseKeyError("metric_id")
    ELSE IF ~AssertDatasetPasses(dataset_id) THEN RaiseKeyError("dataset_id")
    ELSE Return(Datasets[dataset_id][metric_id])

\* MetricRegistry.get
Get(dataset_id, metric_id) ==
    IF ~AssertDatasetPasses(dataset_id) THEN RaiseKeyError("dataset_id")
    ELSE LET ds == Datasets[dataset_id]
         IN  IF metric_id \notin DOMAIN ds THEN RaiseKeyError("metric_id")
             ELSE Return(ds[metric_id])

\* MetricRegistry.maybe_get: Optional[MetricSpec], <<>> is None
MaybeGet(dataset_id, metric_id) ==
    LET r == Get(dataset_id, metric_id)
    IN  IF r.ok THEN <<r.value>> ELSE <<>>

----------------------------------------------------------------------------
(* Text: a country code is a str, modelled as the sequence of its Unicode   *)
(* code points; str.strip, str.upper and ISO3_RE.match work on it code     *)
(* point by code point, with the tables of Unicode 14 (CPython 3.11).      *)

\* The code points of the characters written as TLA+ strings below
Ord ==
       ("A" :> 65) @@ ("B" :> 66) @@ ("C" :> 67) @@ ("D" :> 68) @@ ("E" :> 69) @@ ("F" :> 70)
    @@ ("G" :> 71) @@ ("H" :> 72) @@ ("I" :> 73) @@ ("J" :> 74) @@ ("K" :> 75) @@ ("L" :> 76)
    @@ ("M" :> 77) @@ ("N" :> 78) @@ ("O" :> 79) @@ ("P" :> 80) @@ ("Q" :> 81) @@ ("R" :> 82)
    @@ ("S" :> 83) @@ ("T" :> 84) @@ ("U" :> 85) @@ ("V" :> 86) @@ ("W" :> 87) @@ ("X" :> 88)
    @@ ("Y" :> 89) @@ ("Z" :> 90) @@ ("a" :> 97) @@ ("b" :> 98) @@ ("c" :> 99) @@ ("d" :> 100)
    @@ ("e" :> 101) @@ ("f" :> 102) @@ ("g" :> 103) @@ ("h" :> 104) @@ ("i" :> 105)
    @@ ("j" :> 106) @@ ("k" :> 107) @@ ("l" :> 108) @@ ("m" :> 109) @@ ("n" :> 110)
    @@ ("o" :> 111) @@ ("p" :> 112) @@ ("q" :> 113) @@ ("r" :> 114) @@ ("s" :> 115)
    @@ ("t" :> 116) @@ ("u" :> 117) @@ ("v" :> 118) @@ ("w" :> 119) @@ ("x" :> 120)
    @@ ("y" :> 121) @@ ("z" :> 122) @@ (" " :> 32) @@ ("\t" :> 9) @@ ("\n" :> 10)
    @@ ("\f" :> 12) @@ ("\r" :> 13)

\* The str whose characters are those of the TLA+ string s
RECURSIVE Chars(_)
Chars(s) == IF s = "" THEN <<>> ELSE <<Ord[Head(s)]>> \o Chars(Tail(s))

\* The characters str.strip() removes: those for which str.isspace() holds
WhiteSpace ==
    (9..13) \cup (28..32) \cup {133, 160, 5760} \cup (8192..8202)
        \cup {8232, 8233, 8239, 8287, 12288}
IsSpace(c) == c \in WhiteSpace

\* str.upper, the characters that map to one character: runs
\* <<first, last, step, offset>> of code points c that map to c + offset
UpperRuns ==
    {<<97, 122, 1, -32>>, <<181, 181, 1, 743>>, <<224, 246, 1, -32>>, <<248, 254, 1, -32>>,
     <<255, 255, 1, 121>>, <<257, 303, 2, -1>>, <<305, 305, 1, -232>>, <<307, 311, 2, -1>>,
     <<314, 328, 2, -1>>, <<331, 375, 2, -1>>, <<378, 382, 2, -1>>, <<383, 383, 1, -300>>,
     <<384, 384, 1, 195>>, <<387, 389, 2, -1>>, <<392, 392, 1, -1>>, <<396, 396, 1, -1>>,
     <<402, 402, 1, -1>>, <<405, 405, 1, 97>>, <<409, 409, 1, -1>>, <<410, 410, 1, 163>>,
     <<414, 414, 1, 130>>, <<417, 421, 2, -1>>, <<424, 424, 1, -1>>, <<429, 429, 1, -1>>,
     <<432, 432, 1, -1>>, <<436, 438, 2, -1>>, <<441, 441, 1, -1>>, <<445, 445, 1, -1>>,
     <<447, 447, 1, 56>>, <<453, 453, 1, -1>>, <<454, 454, 1, -2>>, <<456, 456, 1, -1>>,
     <<457, 457, 1, -2>>, <<459, 459, 1, -1>>, <<460, 460, 1, -2>>, <<462, 476, 2, -1>>,
     <<477, 477, 1, -79>>, <<479, 495, 2, -1>>, <<498, 498, 1, -1>>, <<499, 499, 1, -2>>,
     <<501, 501, 1, -1>>, <<505, 543, 2, -1>>, <<547, 563, 2, -1>>, <<572, 572, 1, -1>>,
     <<575, 576, 1, 10815>>, <<578, 578, 1, -1>>, <<583, 591, 2, -1>>, <<592, 592, 1, 10783>>,
     <<593, 593, 1, 10780>>, <<594, 594, 1, 10782>>, <<595, 595, 1, -210>>,
     <<596, 596, 1, -206>>, <<598, 599, 1, -205>>, <<601, 601, 1, -202>>, <<603, 603, 1, -203>>,
     <<604, 604, 1, 42319>>, <<608, 608, 1, -205>>, <<609, 609, 1, 42315>>,
     <<611, 611, 1, -207>>, <<613, 613, 1, 42280>>, <<614, 614, 1, 42308>>,
     <<616, 616, 1, -209>>, <<617, 617, 1, -211>>, <<618, 618, 1, 42308>>,
     <<619, 619, 1, 10743>>, <<620, 620, 1, 42305>>, <<623, 623, 1, -211>>,
     <<625, 625, 1, 10749>>, <<626, 626, 1, -213>>, <<629, 629, 1, -214>>,
     <<637, 637, 1, 10727>>, <<640, 640, 1, -218>>, <<642, 642, 1, 42307>>,
     <<643, 643, 1, -218>>, <<647, 647, 1, 42282>>, <<648, 648, 1, -218>>, <<649, 649, 1, -69>>,
     <<650, 651, 1, -217>>, <<652, 652, 1, -71>>, <<658, 658, 1, -219>>, <<669, 669, 1, 42261>>,
     <<670, 670, 1, 42258>>, <<837, 837, 1, 84>>, <<881, 883, 2, -1>>, <<887, 887, 1, -1>>,
     <<891, 893, 1, 130>>, <<940, 940, 1, -38>>, <<941, 943, 1, -37>>, <<945, 961, 1, -32>>,
     <<962, 962, 1, -31>>, <<963, 971, 1, -32>>, <<972, 972, 1, -64>>, <<973, 974, 1, -63>>,
     <<976, 976, 1, -62>>, <<977, 977, 1, -57>>, <<981, 981, 1, -47>>, <<982, 982, 1, -54>>,
     <<983, 983, 1, -8>>, <<985, 1007, 2, -1>>, <<1008, 1008, 1, -86>>, <<1009, 1009, 1, -80>>,
     <<1010, 1010, 1, 7>>, <<1011, 1011, 1, -116>>, <<1013, 1013, 1, -96>>,
     <<1016, 1016, 1, -1>>, <<1019, 1019, 1, -1>>, <<1072, 1103, 1, -32>>,
     <<1104, 1119, 1, -80>>, <<1121, 1153, 2, -1>>, <<1163, 1215, 2, -1>>, <<1218, 1230, 2, -1>>,
     <<1231, 1231, 1, -15>>, <<1233, 1327, 2, -1>>, <<1377, 1414, 1, -48>>,
     <<4304, 4346, 1, 3008>>, <<4349, 4351, 1, 3008>>, <<5112, 5117, 1, -8>>,
     <<7296, 7296, 1, -6254>>, <<7297, 7297, 1, -6253>>, <<7298, 7298, 1, -6244>>,
     <<7299, 7300, 1, -6242>>, <<7301, 7301, 1, -6243>>, <<7302, 7302, 1, -6236>>,
     <<7303, 7303, 1, -6181>>, <<7304, 7304, 1, 35266>>, <<7545, 7545, 1, 35332>>,
     <<7549, 7549, 1, 3814>>, <<7566, 7566, 1, 35384>>, <<7681, 7829, 2, -1>>,
     <<7835, 7835, 1, -59>>, <<7841, 7935, 2, -1>>, <<7936, 7943, 1, 8>>, <<7952, 7957, 1, 8>>,
     <<7968, 7975, 1, 8>>, <<7984, 7991, 1, 8>>, <<8000, 8005, 1, 8>>, <<8017, 8023, 2, 8>>,
     <<8032, 8039, 1, 8>>, <<8048, 8049, 1, 74>>, <<8050, 8053, 1, 86>>, <<8054, 8055, 1, 100>>,
     <<8056, 8057, 1, 128>>, <<8058, 8059, 1, 112>>, <<8060, 8061, 1, 126>>,
     <<8112, 8113, 1, 8>>, <<8126, 8126, 1, -7205>>, <<8144, 8145, 1, 8>>, <<8160, 8161, 1, 8>>,
     <<8165, 8165, 1, 7>>, <<8526, 8526, 1, -28>>, <<8560, 8575, 1, -16>>, <<8580, 8580, 1, -1>>,
     <<9424, 9449, 1, -26>>, <<11312, 11359, 1, -48>>, <<11361, 11361, 1, -1>>,
     <<11365, 11365, 1, -10795>>, <<11366, 11366, 1, -10792>>, <<11368, 11372, 2, -1>>,
     <<11379, 11379, 1, -1>>, <<11382, 11382, 1, -1>>, <<11393, 11491, 2, -1>>,
     <<11500, 11502, 2, -1>>, <<11507, 11507, 1, -1>>, <<11520, 11557, 1, -7264>>,
     <<11559, 11559, 1, -7264>>, <<11565, 11565, 1, -7264>>, <<42561, 42605, 2, -1>>,
     <<42625, 42651, 2, -1>>, <<42787, 42799, 2, -1>>, <<42803, 42863, 2, -1>>,
     <<42874, 42876, 2, -1>>, <<42879, 42887, 2, -1>>, <<42892, 42892, 1, -1>>,
     <<42897, 42899, 2, -1>>, <<42900, 42900, 1, 48>>, <<42903, 42921, 2, -1>>,
     <<42933, 42947, 2, -1>>, <<42952, 42954, 2, -1>>, <<42961, 42961, 1, -1>>,
     <<42967, 42969, 2, -1>>, <<42998, 42998, 1, -1>>, <<43859, 43859, 1, -928>>,
     <<43888, 43967, 1, -38864>>, <<65345, 65370, 1, -32>>, <<66600, 66639, 1, -40>>,
     <<66776, 66811, 1, -40>>, <<66967, 67003, 2, -39>>, <<66968, 66976, 2, -39>>,
     <<66980, 66992, 2, -39>>, <<66996, 67000, 2, -39>>, <<67004, 67004, 1, -39>>,
     <<68800, 68850, 1, -64>>, <<71872, 71903, 1, -32>>, <<93792, 93823, 1, -32>>,
     <<125218, 125251, 1, -34>>}

\* str.upper, the characters that map to several characters
UpperSpecial ==
       (223 :> <<83, 83>>) @@ (329 :> <<700, 78>>) @@ (496 :> <<74, 780>>)
    @@ (912 :> <<921, 776, 769>>) @@ (944 :> <<933, 776, 769>>) @@ (1415 :> <<1333, 1362>>)
    @@ (7830 :> <<72, 817>>) @@ (7831 :> <<84, 776>>) @@ (7832 :> <<87, 778>>)
    @@ (7833 :> <<89, 778>>) @@ (7834 :> <<65, 702>>) @@ (8016 :> <<933, 787>>)
    @@ (8018 :> <<933, 787, 768>>) @@ (8020 :> <<933, 787, 769>>) @@ (8022 :> <<933, 787, 834>>)
    @@ (8064 :> <<7944, 921>>) @@ (8065 :> <<7945, 921>>) @@ (8066 :> <<7946, 921>>)
    @@ (8067 :> <<7947, 921>>) @@ (8068 :> <<7948, 921>>) @@ (8069 :> <<7949, 921>>)
    @@ (8070 :> <<7950, 921>>) @@ (8071 :> <<7951, 921>>) @@ (8072 :> <<7944, 921>>)
    @@ (8073 :> <<7945, 921>>) @@ (8074 :> <<7946, 921>>) @@ (8075 :> <<7947, 921>>)
    @@ (8076 :> <<7948, 921>>) @@ (8077 :> <<7949, 921>>) @@ (8078 :> <<7950, 921>>)
    @@ (8079 :> <<7951, 921>>) @@ (8080 :> <<7976, 921>>) @@ (8081 :> <<7977, 921>>)
    @@ (8082 :> <<7978, 921>>) @@ (8083 :> <<7979, 921>>) @@ (8084 :> <<7980, 921>>)
    @@ (8085 :> <<7981, 921>>) @@ (8086 :> <<7982, 921>>) @@ (8087 :> <<7983, 921>>)
    @@ (8088 :> <<7976, 921>>) @@ (8089 :> <<7977, 921>>) @@ (8090 :> <<7978, 921>>)
    @@ (8091 :> <<7979, 921>>) @@ (8092 :> <<7980, 921>>) @@ (8093 :> <<7981, 921>>)
    @@ (8094 :> <<7982, 921>>) @@ (8095 :> <<7983, 921>>) @@ (8096 :> <<8040, 921>>)
    @@ (8097 :> <<8041, 921>>) @@ (8098 :> <<8042, 921>>) @@ (8099 :> <<8043, 921>>)
    @@ (8100 :> <<8044, 921>>) @@ (8101 :> <<8045, 921>>) @@ (8102 :> <<8046, 921>>)
    @@ (8103 :> <<8047, 921>>) @@ (8104 :> <<8040, 921>>) @@ (8105 :> <<8041, 921>>)
    @@ (8106 :> <<8042, 921>>) @@ (8107 :> <<8043, 921>>) @@ (8108 :> <<8044, 921>>)
    @@ (8109 :> <<8045, 921>>) @@ (8110 :> <<8046, 921>>) @@ (8111 :> <<8047, 921>>)
    @@ (8114 :> <<8122, 921>>) @@ (8115 :> <<913, 921>>) @@ (8116 :> <<902, 921>>)
    @@ (8118 :> <<913, 834>>) @@ (8119 :> <<913, 834, 921>>) @@ (8124 :> <<913, 921>>)
    @@ (8130 :> <<8138, 921>>) @@ (8131 :> <<919, 921>>) @@ (8132 :> <<905, 921>>)
    @@ (8134 :> <<919, 834>>) @@ (8135 :> <<919, 834, 921>>) @@ (8140 :> <<919, 921>>)
    @@ (8146 :> <<921, 776, 768>>) @@ (8147 :> <<921, 776, 769>>) @@ (8150 :> <<921, 834>>)
    @@ (8151 :> <<921, 776, 834>>) @@ (8162 :> <<933, 776, 768>>) @@ (8163 :> <<933, 776, 769>>)
    @@ (8164 :> <<929, 787>>) @@ (8166 :> <<933, 834>>) @@ (8167 :> <<933, 776, 834>>)
    @@ (8178 :> <<8186, 921>>) @@ (8179 :> <<937, 921>>) @@ (8180 :> <<911, 921>>)
    @@ (8182 :> <<937, 834>>) @@ (8183 :> <<937, 834, 921>>) @@ (8188 :> <<937, 921>>)
    @@ (64256 :> <<70, 70>>) @@ (64257 :> <<70, 73>>) @@ (64258 :> <<70, 76>>)
    @@ (64259 :> <<70, 70, 73>>) @@ (64260 :> <<70, 70, 76>>) @@ (64261 :> <<83, 84>>)
    @@ (64262 :> <<83, 84>>) @@ (64275 :> <<1348, 1350>>) @@ (64276 :> <<1348, 1333>>)
    @@ (64277 :> <<1348, 1339>>) @@ (64278 :> <<1358, 1350>>) @@ (64279 :> <<1348, 1341>>)

InRun(c, r) == r[1] <= c /\ c <= r[2] /\ (c - r[1]) % r[3] = 0

\* The one-to-one mappings as a function of the character
OneToOne(runs) ==
    [c \in UNION {{k \in r[1]..r[2] : InRun(k, r)} : r \in runs} |->
        c + (CHOOSE r \in runs : InRun(c, r))[4]]
UpperOne == OneToOne(UpperRuns)

\* str.upper of one character under the two tables
UpperWith(c, one, special) ==
    IF c \in DOMAIN special THEN special[c]
    ELSE IF c \in DOMAIN one THEN <<one[c]>>
    ELSE <<c>>

\* str.upper of one character: a str of one to three characters
UpperChar(c) == UpperWith(c, UpperOne, UpperSpecial)

RECURSIVE StrUpper(_)
StrUpper(s) == IF s = <<>> THEN <<>> ELSE UpperChar(Head(s)) \o StrUpper(Tail(s))

RECURSIVE LStrip(_)
LStrip(s) == IF s # <<>> /\ IsSpace(Head(s)) THEN LStrip(Tail(s)) ELSE s

RECURSIVE RStrip(_)
RStrip(s) ==
    IF s # <<>> /\ IsSpace(s[Len(s)]) THEN RStrip(SubSeq(s, 1, Len(s) - 1)) ELSE s

StrStrip(s) == RStrip(LStrip(s))

\* [A-Z]
IsUpperLetter(c) == c \in 65..90

\* ISO3_RE = ^[A-Z]{3}$ used with match(): $ also matches before a final newline
ISO3Match(s) ==
    /\ Len(s) \in {3, 4}
    /\ \A i \in 1..3 : IsUpperLetter(s[i])
    /\ Len(s) = 4 => s[4] = 10

----------------------------------------------------------------------------
(* agent/schemas.py: the view variants.  A view descriptor is a record      *)
(* with any of the keys view_id, type, mode; a view object has them all.   *)

Range(seq) == {seq[i] : i \in 1..Len(seq)}

Valid(v) == [ok |-> TRUE, value |-> v]
Invalid(kind) == [ok |-> FALSE, error |-> kind]

BarModes == {"latest_year", "delta"}

\* A plausible slip: the other mode as the default
ViewBarDefaultMode_Delta == "delta"

\* ViewBar.mode default
ViewBarDefaultMode == "latest_year"

\* ViewLine: two Literal fields, both defaulted; unknown keys are ignored
ViewLineOf(d) ==
    IF /\ ("view_id" \in DOMAIN d => d.view_id = "timeseries")
       /\ ("type" \in DOMAIN d => d.type = "line")
    THEN Valid([cls |-> "ViewLine", view_id |-> "timeseries", type |-> "line"])
    ELSE Invalid("literal_error")

\* The two outcomes of ViewBar's mode field: the value given, or the default
ViewBarMode(d) == IF "mode" \in DOMAIN d THEN d.mode ELSE ViewBarDefaultMode

\* ViewBar: three Literal fields, all defaulted
ViewBarOf(d) ==
    IF /\ ("view_id" \in DOMAIN d => d.view_id = "summary")
       /\ ("type" \in DOMAIN d => d.type = "bar")
       /\ ViewBarMode(d) \in BarModes
    THEN Valid([cls |-> "ViewBar", view_id |-> "summary", type |-> "bar",
                mode |-> ViewBarMode(d)])
    ELSE Invalid("literal_error")

\* The fields of each variant, and the number of them a descriptor sets
ViewLineFields == {"view_id", "type"}
ViewBarFields == {"view_id", "type", "mode"}
FieldsSet(d, fields) == Cardinality(DOMAIN d \cap fields)

\* ViewSpec = ViewLine | ViewBar, a union in smart mode: of the members that
\* accept the descriptor, the one with more fields set; the leftmost on a tie
ViewSpecOf(d) ==
    IF ViewLineOf(d).ok /\ ViewBarOf(d).ok
    THEN IF FieldsSet(d, ViewBarFields) > FieldsSet(d, ViewLineFields)
         THEN ViewBarOf(d) ELSE ViewLineOf(d)
    ELSE IF ViewLineOf(d).ok THEN ViewLineOf(d)
    ELSE IF ViewBarOf(d).ok THEN ViewBarOf(d)
    ELSE Invalid("union_error")

IsViewLine(v) == v.cls = "ViewLine"
IsViewBar(v) == v.cls = "ViewBar"

\* views default_factory
DefaultViews == << ViewLineOf(<<>>).value >>

----------------------------------------------------------------------------
(* agent/schemas.py: the per-field validation of PlanV1 (stage 1).         *)

\* plan_version: Literal["1"] = "1"
FieldPlanVersion(inp) ==
    IF "plan_version" \notin DOMAIN inp THEN Valid("1")
    ELSE IF inp.plan_version = "1" THEN Valid("1") ELSE Invalid("literal_error")

\* dataset_id: Literal["owid_energy"] = DATASET_OWID_ENERGY
FieldDatasetId(inp) ==
    IF "dataset_id" \notin DOMAIN inp THEN Valid(DATASET_OWID_ENERGY)
    ELSE IF inp.dataset_id = "owid_energy" THEN Valid(inp.dataset_id)
    ELSE Invalid("literal_error")

\* question: str, min_length=5, max_length=500
FieldQuestion(inp) ==
    IF "question" \notin DOMAIN inp THEN Invalid("missing")
    ELSE IF Len(inp.question) < QuestionMin THEN Invalid("string_too_short")
    ELSE IF Len(inp.question) > QuestionMax THEN Invalid("string_too_long")
    ELSE Valid(inp.question)

\* validate_metric_id: the registry lookup; its KeyError is not a ValueError,
\* so it leaves the constructor as it is
ValidateMetricId(v) ==
    IF Get(DATASET_OWID_ENERGY, v).ok THEN Valid(v) ELSE Invalid("KeyError")

\* metric_id: str, min_length=3, max_length=80, then validate_metric_id
FieldMetricId(inp) ==
    IF "metric_id" \notin DOMAIN inp THEN Invalid("missing")
    ELSE IF Len(inp.metric_id) < MetricIdMin THEN Invalid("string_too_short")
    ELSE IF Len(inp.metric_id) > MetricIdMax THEN Invalid("string_too_long")
    ELSE ValidateMetricId(inp.metric_id)

\* c.strip().upper()
CleanCode(c) == StrUpper(StrStrip(c))

\* the uniqueness loop: keeps the first occurrence of each code, in order
RECURSIVE UniqLoop(_, _)
UniqLoop(cleaned, uniq) ==
    IF cleaned = <<>> THEN uniq
    ELSE UniqLoop(Tail(cleaned),
                  IF Head(cleaned) \in Range(uniq) THEN uniq
                  ELSE Append(uniq, Head(cleaned)))

\* A plausible slip in the uniqueness loop: the last occurrence is kept
RECURSIVE UniqLast(_)
UniqLast(cleaned) ==
    IF cleaned = <<>> THEN <<>>
    ELSE IF Head(cleaned) \in Range(Tail(cleaned)) THEN UniqLast(Tail(cleaned))
    ELSE <<Head(cleaned)>> \o UniqLast(Tail(cleaned))

Uniq(cleaned) == UniqLoop(cleaned, <<>>)

\* The first loop of validate_countries: the position of the first entry whose
\* cc does not match ISO3_RE, 0 when every entry matches
FirstInvalid(cleaned) ==
    LET bad == {i \in 1..Len(cleaned) : ~ISO3Match(cleaned[i])}
    IN  IF bad = {} THEN 0 ELSE CHOOSE i \in bad : \A j \in bad : i <= j

\* validate_countries once cc is known for every entry: the loop raises
\* ValueError at the first invalid one; then the uniqueness loop and the cap
CheckCleaned(cleaned) ==
    IF FirstInvalid(cleaned) # 0 THEN Invalid("value_error")
    ELSE IF Len(Uniq(cleaned)) > UniqMax THEN Invalid("value_error")
    ELSE Valid(Uniq(cleaned))

\* validate_countries, on a list of strings
ValidateCountries(countries) ==
    IF countries = <<>> THEN Invalid("value_error")
    ELSE CheckCleaned([i \in 1..Len(countries) |-> CleanCode(countries[i])])

\* The entry that the message of the ValueError quotes as received ('{c}'):
\* <<c>> for the error of an invalid code, <<>> for the other messages
QuotedEntry(countries, cleaned) ==
    IF FirstInvalid(cleaned) = 0 THEN <<>> ELSE <<countries[FirstInvalid(cleaned)]>>

\* A str that holds a lone surrogate cannot be encoded as UTF-8
Surrogates == 55296..57343
HasSurrogate(c) == \E i \in 1..Len(c) : c[i] \in Surrogates

\* The field validator's ValueError becomes a line error of the field that
\* carries its message; a message that cannot be encoded as UTF-8 makes the
\* constructor raise UnicodeEncodeError instead
LineError(result, quoted) ==
    IF ~result.ok /\ quoted # <<>> /\ HasSurrogate(quoted[1])
    THEN Invalid("UnicodeEncodeError")
    ELSE result

\* The length constraint of the countries field, on the list as received
CountriesLengthError(countries) ==
    IF Len(countries) < CountriesMin THEN <<"too_short">>
    ELSE IF Len(countries) > CountriesMax THEN <<"too_long">>
    ELSE <<>>

\* countries: list[str], min_length=1, max_length=3, then validate_countries
\* (a field_validator of the default mode runs after the field's own check;
\* what it raises is turned into the field's line error)
FieldCountries(inp) ==
    IF "countries" \notin DOMAIN inp THEN Invalid("missing")
    ELSE IF CountriesLengthError(inp.countries) # <<>>
    THEN Invalid(CountriesLengthError(inp.countries)[1])
    ELSE LineError(ValidateCountries(inp.countries),
                   QuotedEntry(inp.countries,
                               [i \in 1..Len(inp.countries) |-> CleanCode(inp.countries[i])]))

\* year_start, year_end: int, ge=1800, le=2500
FieldYear(inp, name) ==
    IF name \notin DOMAIN inp THEN Invalid("missing")
    ELSE IF inp[name] < YearLo THEN Invalid("greater_than_equal")
    ELSE IF inp[name] > YearHi THEN Invalid("less_than_equal")
    ELSE Valid(inp[name])

\* views: list[ViewSpec], default [ViewLine()]
FieldViews(inp) ==
    IF "views" \notin DOMAIN inp THEN Valid(DefaultViews)
    ELSE IF \E i \in 1..Len(inp.views) : ~ViewSpecOf(inp.views[i]).ok
    THEN Invalid("union_error")
    ELSE Valid([i \in 1..Len(inp.views) |-> ViewSpecOf(inp.views[i]).value])

\* notes: Optional[str], default None, max_length=500
FieldNotes(inp) ==
    IF "notes" \notin DOMAIN inp THEN Valid(<<>>)
    ELSE IF inp.notes = <<>> THEN Valid(<<>>)
    ELSE IF Len(inp.notes[1]) > NotesMax THEN Invalid("string_too_long")
    ELSE Valid(inp.notes)

----------------------------------------------------------------------------
(* agent/schemas.py: the model validator (stage 2) and the constructor.    *)

\* if self.year_start > self.year_end
YearsOutOfOrder(year_start, year_end) == year_start > year_end

\* Plausible slips in the future-year check: a one-year buffer, a reversed test
YearEndInFuture_Buffer(year_end, current_year) == year_end > current_year + 1
YearEndInFuture_Reversed(year_end, current_year) == year_end < current_year

\* if self.year_end > current_year
YearEndInFuture(year_end, current_year) == year_end > current_year

\* A plausible slip: the check of the second view is left out
ViewsShapeError_NoSecondCheck(views) ==
    IF views = <<>> THEN <<"views must contain at least the timeseries line view">>
    ELSE IF ~IsViewLine(views[1]) THEN <<"views[0] must be the timeseries line view">>
    ELSE IF Len(views) > ViewsMax THEN <<"Phase 1 supports at most 2 views">>
    ELSE <<>>

\* the four checks on self.views, in the order of the code
ViewsShapeError(views) ==
    IF views = <<>> THEN <<"views must contain at least the timeseries line view">>
    ELSE IF ~IsViewLine(views[1]) THEN <<"views[0] must be the timeseries line view">>
    ELSE IF Len(views) > ViewsMax THEN <<"Phase 1 supports at most 2 views">>
    ELSE IF Len(views) = 2 /\ ~IsViewBar(views[2])
    THEN <<"views[1], if provided, must be the summary bar view">>
    ELSE <<>>

\* validate_years_and_views: <<>> when it returns self, <<message>> when it raises
ValidateYearsAndViews(self, current_year) ==
    IF YearsOutOfOrder(self.year_start, self.year_end)
    THEN <<"year_start must be <= year_end">>
    ELSE IF YearEndInFuture(self.year_end, current_year)
    THEN <<"year_end is in the future relative to current year">>
    ELSE ViewsShapeError(self.views)

NoPlan == [none |-> TRUE]

Failure(exc, st, errs, rd) ==
    [ok |-> FALSE, raised |-> exc, stage |-> st, errors |-> errs, plan |-> NoPlan, read |-> rd]

\* Stage 1: every field of PlanV1 validated on its own, in declaration order
FieldResults(inp) ==
    [plan_version |-> FieldPlanVersion(inp),
     dataset_id   |-> FieldDatasetId(inp),
     question     |-> FieldQuestion(inp),
     metric_id    |-> FieldMetricId(inp),
     countries    |-> FieldCountries(inp),
     year_start   |-> FieldYear(inp, "year_start"),
     year_end     |-> FieldYear(inp, "year_end"),
     views        |-> FieldViews(inp),
     notes        |-> FieldNotes(inp)]

\* The outcome of a construction from the results of stage 1: the KeyError
\* of validate_metric_id and the UnicodeEncodeError of the countries field
\* leave at once, in the order of the fields; other field errors are collected
\* into one ValidationError; the model validator runs when every field passed
Finish(fields, current_year) ==
    LET failed == {f \in DOMAIN fields : ~fields[f].ok}
        self   == [f \in DOMAIN fields |-> fields[f].value]
    IN  IF "metric_id" \in failed /\ fields.metric_id.error = "KeyError"
        THEN Failure("KeyError", 1, {<<"metric_id", "KeyError">>}, 0)
        ELSE IF "countries" \in failed /\ fields.countries.error = "UnicodeEncodeError"
        THEN Failure("UnicodeEncodeError", 1, {<<"countries", "UnicodeEncodeError">>}, 0)
        ELSE IF failed # {}
        THEN Failure("ValidationError", 1, {<<f, fields[f].error>> : f \in failed}, 0)
        ELSE LET e == ValidateYearsAndViews(self, current_year)
             IN  IF e # <<>>
                 THEN Failure("ValidationError", 2, {<<"model", e[1]>>}, current_year)
                 ELSE [ok |-> TRUE, raised |-> "none", stage |-> 2, errors |-> {},
                       plan |-> self, read |-> current_year]

\* PlanV1(**inp) while the clock returns current_year
Construct(inp, current_year) == Finish(FieldResults(inp), current_year)

\* A plausible slip: the dump of a view keeps its tags only
DumpView_TagsOnly(v) == [view_id |-> v.view_id, type |-> v.type]

\* BaseModel.model_dump of one view object
DumpView(v) ==
    IF IsViewLine(v) THEN [view_id |-> v.view_id, type |-> v.type]
    ELSE [view_id |-> v.view_id, type |-> v.type, mode |-> v.mode]

\* PlanV1.model_dump(): the structured form, every field present
ModelDump(p) ==
    [plan_version |-> p.plan_version,
     dataset_id   |-> p.dataset_id,
     question     |-> p.question,
     metric_id    |-> p.metric_id,
     countries    |-> p.countries,
     year_start   |-> p.year_start,
     year_end     |-> p.year_end,
     views        |-> [i \in 1..Len(p.views) |-> DumpView(p.views[i])],
     notes        |-> p.notes]

\* PlanV1.metric_spec
MetricSpecOf(p) == Get(p.dataset_id, p.metric_id)

----------------------------------------------------------------------------
(* The structured inputs the callers submit.                               *)

RECURSIVE Pad(_)
Pad(n) ==
    IF n = 0 THEN ""
    ELSE IF n % 2 = 0 THEN LET half == Pad(n \div 2) IN half \o half
    ELSE "x" \o Pad(n - 1)

\* The request of agent/quick_check.py
QuickQuestion == "Compare renewables share in Australia vs Germany since 2005"
AUS == Chars("AUS")
DEU == Chars("DEU")
FRA == Chars("FRA")
NZL == Chars("NZL")
Deu == Chars("deu")
QuickInput ==
    [question |-> QuickQuestion, metric_id |-> "renewables_share_energy",
     countries |-> <<AUS, Deu>>, year_start |-> 2005, year_end |-> 2023]

\* '\x0c aus\xa0\n': form feed, space, the code, no-break space, newline
PaddedAus == <<12, 32>> \o Chars("aus") \o <<160, 10>>
\* 'a\xdf', which upper-cases to 'ASS', and '\u0131so', which upper-cases to 'ISO'
SharpS == <<97, 223>>
DotlessIso == <<305, 115, 111>>
\* '\ud800AUS': a lone surrogate before the code
SurrogateAus == <<55296>> \o Chars("AUS")

LineDesc == [view_id |-> "timeseries", type |-> "line"]
BarDesc(m) == [view_id |-> "summary", type |-> "bar", mode |-> m]

\* Sequences over S of length lo..hi
SeqsOf(S, lo, hi) == UNION {[1..n -> S] : n \in lo..hi}

DatasetParts == {<<>>, [dataset_id |-> "owid_energy"], [dataset_id |-> "owid_co2"]}
TextParts ==
    {[question |-> QuickQuestion],
     [question |-> "Why?"],
     [question |-> QuickQuestion, notes |-> <<Pad(NotesMax + 1)>>]}
MetricParts ==
    {[metric_id |-> "renewables_share_energy"], [metric_id |-> "not_a_real_metric"],
     [metric_id |-> "ab"]}
CountryParts ==
    {<<>>, [countries |-> <<>>], [countries |-> <<AUS, Deu>>],
     [countries |-> <<DEU, AUS, Deu>>],
     [countries |-> <<AUS, DEU, FRA, NZL>>], [countries |-> <<Chars("AU")>>],
     [countries |-> <<PaddedAus, SharpS, DotlessIso>>],
     [countries |-> <<AUS, SurrogateAus>>]}
YearParts ==
    {[year_start |-> ys, year_end |-> ye] :
        ys \in {YearLo - 1, YearLo, ClockStart + 1},
        ye \in {YearLo, ClockStart, ClockStart + 1, YearHi, YearHi + 1}}
ViewParts ==
    {<<>>, [views |-> <<>>], [views |-> <<LineDesc>>],
     [views |-> <<LineDesc, BarDesc("delta")>>], [views |-> <<BarDesc("latest_year")>>],
     [views |-> <<LineDesc, LineDesc>>]}

Inputs ==
    {d @@ t @@ m @@ c @@ y @@ v :
        d \in DatasetParts, t \in TextParts, m \in MetricParts,
        c \in CountryParts, y \in YearParts, v \in ViewParts}

\* The requests of the Plan lifecycle: the quick_check one, varied in its metric,
\* countries, last year, views and notes
Requests ==
    {[metric_id |-> m, countries |-> c, year_end |-> ye] @@ v @@ QuickInput :
        m \in {"renewables_share_energy", "not_a_real_metric"},
        c \in {<<AUS, Deu>>, <<DEU, AUS, Deu>>},
        ye \in {ClockStart - 2, ClockStart, ClockStart + 1},
        v \in {<<>>, [views |-> <<LineDesc, BarDesc("delta")>>],
               [views |-> <<[type |-> "line"], [type |-> "bar"]>>, notes |-> <<"from the UI">>]}}

\* Raw country codes: four distinct valid codes, two spellings that clean to
\* one of them, two whose upper-casing is not letter by letter, one that is
\* no ISO3 code and one that holds a lone surrogate
RawCodes ==
    {AUS, DEU, Deu, PaddedAus, FRA, NZL, SharpS, DotlessIso, Chars("AU"), SurrogateAus}
RawCountryLists == SeqsOf(RawCodes, 0, MaxRawCountries)

\* View descriptors, with and without the key type
ViewDescs ==
    {LineDesc, [type |-> "line"], [type |-> "line", mode |-> "delta"],
     BarDesc("delta"), BarDesc("latest_year"), [type |-> "bar"],
     BarDesc("stacked"), [view_id |-> "timeseries", type |-> "bar", mode |-> "delta"],
     [type |-> "pie"], <<>>, [mode |-> "delta"], [mode |-> "stacked"],
     [view_id |-> "summary"]}
RawViewLists == SeqsOf(ViewDescs, 0, MaxRawViews)

LookupDatasets == {"owid_energy", "owid_co2", "renewables_share_energy"}
LookupMetrics == DOMAIN OwidMetrics \cup {"not_a_real_metric", "owid_energy"}

----------------------------------------------------------------------------
(* State and operations.                                                   *)

NoInput == [none |-> TRUE]
NoOutcome == Failure("none", 0, {}, 0)
NoPrev == [called |-> FALSE]
NoLookup == [called |-> FALSE]

Init ==
    /\ now = ClockStart
    /\ input = NoInput
    /\ plan = NoPlan
    /\ built = NoPlan
    /\ outcome = NoOutcome
    /\ readYear = 0
    /\ prev = NoPrev
    /\ resolved = NoLookup
    /\ maybe = NoLookup
    /\ op = "idle"
    /\ writes = 0

\* plan = PlanV1(**inp): the caller holds the Plan, or nothing when it raised
DoConstruct(inp, name) ==
    /\ input' = inp
    /\ outcome' = Construct(inp, now)
    /\ plan' = outcome'.plan
    /\ built' = outcome'.plan
    /\ readYear' = outcome'.read
    /\ resolved' = NoLookup
    /\ op' = name
    /\ UNCHANGED <<now, maybe>>

\* A request arrives and a Plan is constructed from it
NewPlan ==
    /\ op = "idle"
    /\ \E inp \in Requests : DoConstruct(inp, "construct")
    /\ prev' = NoPrev
    /\ writes' = 0

\* The same structured input is validated again, at the clock's current year
Revalidate ==
    /\ op # "idle"
    /\ prev' = [called |-> TRUE, year |-> readYear, ok |-> outcome.ok,
                plan |-> plan, pristine |-> (plan = built), at |-> now]
    /\ UNCHANGED writes
    /\ DoConstruct(input, "revalidate")

\* PlanV1(**plan.model_dump())
RoundTrip ==
    /\ plan # NoPlan
    /\ prev' = [called |-> TRUE, year |-> readYear, ok |-> outcome.ok,
                plan |-> plan, pristine |-> (plan = built), at |-> now]
    /\ UNCHANGED writes
    /\ DoConstruct(ModelDump(plan), "roundtrip")

\* plan.metric_spec()
CallMetricSpec ==
    /\ plan # NoPlan
    /\ resolved' = [called |-> TRUE, dataset_id |-> plan.dataset_id,
                    metric_id |-> plan.metric_id, result |-> MetricSpecOf(plan)]
    /\ op' = "metric_spec"
    /\ UNCHANGED <<now, input, plan, built, outcome, readYear, prev, maybe, writes>>

\* The values the callers assign, per field
AssignValues ==
    [metric_id |-> {"not_a_real_metric"},
     year_end  |-> {YearHi + 1}]

\* plan.<field> = value: PlanV1 sets neither frozen nor validate_assignment,
\* so the value is stored as given
AssignField ==
    /\ plan # NoPlan
    /\ writes < MaxWrites
    /\ \E f \in DOMAIN AssignValues : \E v \in AssignValues[f] :
         plan' = [plan EXCEPT ![f] = v]
    /\ writes' = writes + 1
    /\ op' = "assign"
    /\ resolved' = NoLookup
    /\ UNCHANGED <<now, input, built, outcome, readYear, prev, maybe>>

\* plan.countries.append(code)
AppendCountry ==
    /\ plan # NoPlan
    /\ writes < MaxWrites
    /\ \E c \in {Deu} : plan' = [plan EXCEPT !.countries = Append(@, c)]
    /\ writes' = writes + 1
    /\ op' = "append_country"
    /\ resolved' = NoLookup
    /\ UNCHANGED <<now, input, built, outcome, readYear, prev, maybe>>

\* plan.views.append(ViewLine())
AppendView ==
    /\ plan # NoPlan
    /\ writes < MaxWrites
    /\ plan' = [plan EXCEPT !.views = Append(@, ViewLineOf(<<>>).value)]
    /\ writes' = writes + 1
    /\ op' = "append_view"
    /\ resolved' = NoLookup
    /\ UNCHANGED <<now, input, built, outcome, readYear, prev, maybe>>

\* A new year begins: the clock's year never decreases
Tick ==
    /\ now < ClockStart + MaxTicks
    /\ now' = now + 1
    /\ UNCHANGED <<input, plan, built, outcome, readYear, prev, resolved, maybe, op, writes>>

\* The caller drops the Plan and the request
Discard ==
    /\ op # "idle"
    /\ input' = NoInput
    /\ plan' = NoPlan
    /\ built' = NoPlan
    /\ outcome' = NoOutcome
    /\ readYear' = 0
    /\ prev' = NoPrev
    /\ resolved' = NoLookup
    /\ maybe' = NoLookup
    /\ op' = "idle"
    /\ writes' = 0
    /\ UNCHANGED now

Next ==
    \/ NewPlan
    \/ Revalidate
    \/ RoundTrip
    \/ CallMetricSpec
    \/ AssignField
    \/ AppendCountry
    \/ AppendView
    \/ Tick
    \/ Discard

Spec == Init /\ [][Next]_vars

\* Any structured input arrives and a Plan is constructed from it
SubmitAny ==
    /\ op = "idle"
    /\ \E inp \in Inputs : DoConstruct(inp, "construct")
    /\ prev' = NoPrev
    /\ writes' = 0

NextConstruct == SubmitAny \/ Tick \/ Discard

SpecConstruct == Init /\ [][NextConstruct]_vars

\* A request that is the quick_check one but for its countries
SubmitCountries ==
    /\ op = "idle"
    /\ \E raw \in RawCountryLists :
         DoConstruct([countries |-> raw] @@ QuickInput, "construct")
    /\ prev' = NoPrev
    /\ writes' = 0

NextCountries == SubmitCountries \/ Discard

SpecCountries == Init /\ [][NextCountries]_vars

\* A request that is the quick_check one with a views list
SubmitViews ==
    /\ op = "idle"
    /\ \E raw \in RawViewLists :
         DoConstruct([views |-> raw] @@ QuickInput, "construct")
    /\ prev' = NoPrev
    /\ writes' = 0

\* The quick_check request itself: no views key
SubmitNoViews ==
    /\ op = "idle"
    /\ DoConstruct(QuickInput, "construct")
    /\ prev' = NoPrev
    /\ writes' = 0

NextViews == SubmitViews \/ SubmitNoViews \/ Discard

SpecViews == Init /\ [][NextViews]_vars

\* DEFAULT_METRIC_REGISTRY.get(dataset_id, metric_id)
LookupGet ==
    /\ \E d \in LookupDatasets, m \in LookupMetrics :
         resolved' = [called |-> TRUE, dataset_id |-> d, metric_id |-> m,
                      result |-> Get(d, m)]
    /\ op' = "get"
    /\ UNCHANGED <<now, input, plan, built, outcome, readYear, prev, maybe, writes>>

\* DEFAULT_METRIC_REGISTRY.maybe_get(dataset_id, metric_id)
LookupMaybeGet ==
    /\ \E d \in LookupDatasets, m \in LookupMetrics :
         maybe' = [called |-> TRUE, dataset_id |-> d, metric_id |-> m,
                   result |-> MaybeGet(d, m)]
    /\ op' = "maybe_get"
    /\ UNCHANGED <<now, input, plan, built, outcome, readYear, prev, resolved, writes>>

NextCatalog == LookupGet \/ LookupMaybeGet

SpecCatalog == Init /\ [][NextCatalog]_vars

----------------------------------------------------------------------------
(* Properties.                                                             *)

Min(a, b) == IF a <= b THEN a ELSE b

\* c is exactly three uppercase letters
ThreeUppercase(c) == Len(c) = 3 /\ \A i \in 1..3 : c[i] \in 65..90

\* c is raw with its surrounding whitespace removed and what remains upper-cased
IsCleaned(raw, c) ==
    \E a, b \in 0..Len(raw) :
        /\ a + b <= Len(raw)
        /\ \A i \in 1..a : raw[i] \in WhiteSpace
        /\ \A i \in (Len(raw) - b + 1)..Len(raw) : raw[i] \in WhiteSpace
        /\ LET kept == SubSeq(raw, a + 1, Len(raw) - b)
           IN  /\ kept # <<>> => (kept[1] \notin WhiteSpace /\ kept[Len(kept)] \notin WhiteSpace)
               /\ c = StrUpper(kept)

\* The kinds of the views of a Plan, in order
ViewKinds(views) == [i \in 1..Len(views) |-> views[i].cls]

\* Every construction-time rule of a Plan, against the clock year `year`
PlanRules(p, year) ==
    /\ p.dataset_id = "owid_energy"
    /\ p.metric_id \in DOMAIN Datasets[p.dataset_id]
    /\ Len(p.countries) \in 1..3
    /\ \A i, j \in 1..Len(p.countries) : i # j => p.countries[i] # p.countries[j]
    /\ \A i \in 1..Len(p.countries) : ThreeUppercase(p.countries[i])
    /\ 1800 <= p.year_start
    /\ p.year_start <= p.year_end
    /\ p.year_end <= Min(2500, year)
    /\ ViewKinds(p.views) \in {<<"ViewLine">>, <<"ViewLine", "ViewBar">>}

\* C1: a construction either raises and leaves no Plan, or returns a Plan on
\* which every rule holds at once, against the clock year it read.
C1_ConstructAllOrNothing ==
    /\ outcome.ok => (built # NoPlan /\ readYear \in ClockStart..now
                      /\ PlanRules(built, readYear))
    /\ ~outcome.ok => built = NoPlan
    /\ (op = "construct" /\ ~outcome.ok) => outcome.raised \in {"ValidationError", "KeyError", "UnicodeEncodeError"}

\* C1 witness: a Plan was returned whose last year is the clock's year, from an
\* input whose countries held a duplicate and whose views were given.
C1_Witness ==
    /\ op = "construct" /\ outcome.ok
    /\ built.year_end = readYear
    /\ Len(input.countries) = 3 /\ Len(built.countries) = 2
    /\ "views" \in DOMAIN input /\ Len(built.views) = 2

\* C2: a constructed Plan is immutable: whatever the caller does, the live
\* Plan keeps the field values the constructor gave it.
C2_PlanImmutable == plan # NoPlan => plan = built

\* C3: metric_spec() never raises on a Plan that exists, and returns the
\* catalog entry of the Plan's metric.
C3_MetricSpecNeverRaises ==
    op = "metric_spec" =>
        /\ resolved.result.ok
        /\ resolved.result.value = Datasets[plan.dataset_id][plan.metric_id]

\* C4: with every entry a syntactically valid code, the request is accepted
\* if and only if its number of distinct cleaned codes is between 1 and 3,
\* whatever the length of the raw list.
C4_CapAppliesAfterDedup ==
    (/\ op = "construct"
     /\ \A i \in 1..Len(input.countries) : ISO3Match(CleanCode(input.countries[i])))
    => (outcome.ok <=>
          Cardinality({CleanCode(input.countries[i]) : i \in 1..Len(input.countries)})
              \in 1..3)

\* C5: the countries of an accepted Plan are the cleaned input codes, each
\* once, in the order of their first occurrence in the input.
C5_CountriesFirstSeenOrder ==
    (op = "construct" /\ outcome.ok) =>
        LET raw == input.countries
            out == built.countries
            First(c) == CHOOSE i \in 1..Len(raw) :
                            /\ IsCleaned(raw[i], c)
                            /\ \A k \in 1..(i - 1) : ~IsCleaned(raw[k], c)
        IN  /\ \A i \in 1..Len(raw) : \E j \in 1..Len(out) : IsCleaned(raw[i], out[j])
            /\ \A j \in 1..Len(out) : \E i \in 1..Len(raw) : IsCleaned(raw[i], out[j])
            /\ \A j, k \in 1..Len(out) : j < k => out[j] # out[k]
            /\ \A j, k \in 1..Len(out) : j < k => First(out[j]) < First(out[k])

\* C5 witness: ['DEU', 'AUS', 'deu'] was accepted and gave ['DEU', 'AUS'].
C5_Witness ==
    /\ op = "construct" /\ outcome.ok
    /\ input.countries = <<DEU, AUS, Deu>>
    /\ built.countries = <<DEU, AUS>>

\* A descriptor that denotes a BarView: nothing in it contradicts the bar
\* variant and something in it (a bar tag, or a legal mode) asks for it.
\* One that denotes a LineView: nothing in it contradicts the line variant
\* (a mode is no field of it) and it does not denote a BarView.
HasKey(d, k, vals) == k \in DOMAIN d /\ d[k] \in vals
LacksKeyOr(d, k, vals) == k \notin DOMAIN d \/ d[k] \in vals
IsBarDesc(d) ==
    /\ LacksKeyOr(d, "view_id", {"summary"})
    /\ LacksKeyOr(d, "type", {"bar"})
    /\ LacksKeyOr(d, "mode", {"latest_year", "delta"})
    /\ \/ HasKey(d, "view_id", {"summary"})
       \/ HasKey(d, "type", {"bar"})
       \/ HasKey(d, "mode", {"latest_year", "delta"})
IsLineDesc(d) ==
    /\ LacksKeyOr(d, "view_id", {"timeseries"})
    /\ LacksKeyOr(d, "type", {"line"})
    /\ ~IsBarDesc(d)

\* C6: with the other fields valid, the request is accepted exactly when views
\* is omitted (the Plan then holds [LineView]), is [LineView], or is
\* [LineView, BarView].
C6_ViewsShape ==
    op = "construct" =>
        /\ outcome.ok <=>
             \/ "views" \notin DOMAIN input
             \/ /\ "views" \in DOMAIN input
                /\ Len(input.views) \in {1, 2}
                /\ IsLineDesc(input.views[1])
                /\ Len(input.views) = 2 => IsBarDesc(input.views[2])
        /\ "views" \notin DOMAIN input => ViewKinds(built.views) = <<"ViewLine">>
        /\ ("views" \in DOMAIN input /\ outcome.ok) =>
             /\ Len(built.views) = Len(input.views)
             /\ ViewKinds(built.views) \in {<<"ViewLine">>, <<"ViewLine", "ViewBar">>}

\* C6 witness: a two-view request [LineView, BarView(mode="delta")] was accepted.
C6_Witness ==
    /\ op = "construct" /\ outcome.ok
    /\ "views" \in DOMAIN input
    /\ ViewKinds(built.views) = <<"ViewLine", "ViewBar">>
    /\ built.views[2].mode = "delta"

\* C7 as stated: some input is accepted at a clock year and rejected when the
\* same input is validated at a later clock year.
C7_AcceptedThenRejected ==
    \E inp \in Inputs \cup Requests :
        \E y1, y2 \in ClockStart..(ClockStart + MaxTicks) :
            /\ now <= y1 /\ y1 < y2
            /\ Construct(inp, y1).ok
            /\ ~Construct(inp, y2).ok

\* C7 amended: an input accepted at a clock year is accepted at every later
\* one; an input rejected for its year_end and accepted later is one whose
\* year_end lay after the first clock year and not after the second.
C7_ValidityOnlyGrows ==
    (op = "revalidate" /\ prev.called /\ prev.year > 0) =>
        /\ prev.year <= prev.at
        /\ prev.ok => (outcome.ok /\ readYear = prev.at)
        /\ (~prev.ok /\ outcome.ok) =>
              (prev.year < input.year_end /\ input.year_end <= prev.at)

\* C7 witness: an input rejected at one clock year was accepted at a later one.
C7_Witness ==
    /\ op = "revalidate" /\ prev.called
    /\ ~prev.ok /\ prev.year > 0
    /\ outcome.ok /\ prev.at > prev.year /\ readYear = prev.at

\* C8: the dump of a Plan as constructed, validated at the clock year of its
\* construction, is accepted and gives a Plan equal to it field by field.
C8_RoundTrip ==
    (op = "roundtrip" /\ prev.called /\ prev.pristine /\ prev.year = prev.at) =>
        /\ outcome.ok
        /\ DOMAIN plan = DOMAIN prev.plan
        /\ \A f \in DOMAIN plan : plan[f] = prev.plan[f]

\* C8 witness: a Plan with a bar view of mode delta and a de-duplicated
\* countries list came back from its own dump.
C8_Witness ==
    /\ op = "roundtrip" /\ prev.called /\ prev.pristine /\ prev.year = prev.at
    /\ outcome.ok
    /\ input = ModelDump(prev.plan)
    /\ plan.countries = <<DEU, AUS>>
    /\ Len(plan.views) = 2 /\ plan.views[2].mode = "delta"

\* The metric identifiers of the catalog
CatalogMetricIds ==
    {"energy_per_capita", "primary_energy_consumption", "renewables_share_energy",
     "fossil_share_energy", "coal_share_energy", "oil_share_energy", "gas_share_energy",
     "nuclear_share_energy", "solar_share_elec", "wind_share_elec", "hydro_share_elec"}

\* C9: get returns the stored MetricSpec for a known pair, raises for an
\* unknown dataset whatever the metric, and raises for an unknown metric of
\* the known dataset; maybe_get is empty exactly where get raises and returns
\* what get returns elsewhere.
C9_LookupContract ==
    /\ resolved.called =>
         LET d == resolved.dataset_id
             m == resolved.metric_id
             r == resolved.result
         IN  /\ (d = "owid_energy" /\ m \in CatalogMetricIds) =>
                   (r.ok /\ r.value = OwidMetrics[m] /\ r.value.metric_id = m)
             /\ d # "owid_energy" => (~r.ok /\ r.unknown = "dataset_id")
             /\ (d = "owid_energy" /\ m \notin CatalogMetricIds) =>
                   (~r.ok /\ r.unknown = "metric_id")
    /\ maybe.called =>
         LET known == maybe.dataset_id = "owid_energy" /\ maybe.metric_id \in CatalogMetricIds
         IN  /\ maybe.result = <<>> <=> ~known
             /\ known => maybe.result = <<OwidMetrics[maybe.metric_id]>>
    /\ (/\ resolved.called /\ maybe.called
        /\ resolved.dataset_id = maybe.dataset_id
        /\ resolved.metric_id = maybe.metric_id) =>
         /\ maybe.result = <<>> <=> ~resolved.result.ok
         /\ resolved.result.ok => maybe.result = <<resolved.result.value>>

\* C9 witness: both lookups were made for one unknown metric of the known
\* dataset: get raised and maybe_get returned nothing.
C9_Witness ==
    /\ resolved.called /\ maybe.called
    /\ resolved.dataset_id = "owid_energy" /\ maybe.dataset_id = "owid_energy"
    /\ resolved.metric_id = "not_a_real_metric" /\ maybe.metric_id = "not_a_real_metric"
    /\ ~resolved.result.ok /\ maybe.result = <<>>

\* C10 as stated: a request with a bar descriptor is accepted only when that
\* descriptor carries a mode, and the mode is latest_year or delta.
C10_BarRequiresMode ==
    (/\ op = "construct" /\ "views" \in DOMAIN input
     /\ \E i \in 1..Len(input.views) :
          /\ HasKey(input.views[i], "type", {"bar"})
          /\ ("mode" \notin DOMAIN input.views[i]
              \/ input.views[i].mode \notin {"latest_year", "delta"}))
    => ~outcome.ok

\* C10 amended: a bar descriptor with a mode other than latest_year and delta
\* is rejected; one with no mode is accepted as a BarView of mode latest_year;
\* an accepted bar view has the mode its descriptor carried.
C10_BarModeDefaulted ==
    (op = "construct" /\ "views" \in DOMAIN input) =>
        /\ (\E i \in 1..Len(input.views) :
              /\ HasKey(input.views[i], "type", {"bar"})
              /\ "mode" \in DOMAIN input.views[i]
              /\ input.views[i].mode \notin {"latest_year", "delta"}) => ~outcome.ok
        /\ outcome.ok =>
             \A i \in 1..Len(input.views) :
                 HasKey(input.views[i], "type", {"bar"}) =>
                     /\ built.views[i].cls = "ViewBar"
                     /\ built.views[i].mode =
                          IF "mode" \in DOMAIN input.views[i] THEN input.views[i].mode
                          ELSE "latest_year"

\* C10 witness: a bar descriptor with no mode was accepted with mode latest_year.
C10_Witness ==
    /\ op = "construct" /\ outcome.ok
    /\ "views" \in DOMAIN input /\ Len(input.views) = 2
    /\ input.views[2] = [type |-> "bar"]
    /\ built.views[2].mode = "latest_year"

====
